---- MODULE Spec2Model ----
(***************************************************************************)
(* A model of the text pipeline of UDD_to_Code_gen:                        *)
(*   - generate_doc (src/app/docx_writer.py), the line-oriented parser     *)
(*     that writes headings, subheadings, paragraphs, code blocks and      *)
(*     tables to a document;                                               *)
(*   - split_sections (src/app/generator1.py, generator3.py,               *)
(*     generator4.py), the three rewrite passes and the section map.       *)
(*                                                                         *)
(* Text is a sequence of tokens.  A token is one character (a digit, a     *)
(* whitespace character, a punctuation mark) or a maximal run of ASCII     *)
(* letters (a word).  The character classes of the source's regular        *)
(* expressions take a word whole or not at all.  The literal SECTION of    *)
(* the header patterns does not: it also matches as the last seven         *)
(* letters of a longer word (SUBSECTION), so the passes of split_sections  *)
(* try a match inside such a word as well.                                 *)
(***************************************************************************)
EXTENDS Integers, Sequences, FiniteSets, TLC

VARIABLES
    \* ---- generate_doc (docx_writer.py) ----
    pc,                  \* "loop": in the for loop; "done": saved; "error": raised
    input,               \* the lines of ts_text.splitlines() consumed so far
    branch,              \* the branch of the loop body the last line took
    doc,                 \* the blocks written to the document, in order
    current_section,     \* the heading text waiting to be written ("" = <<>>)
    current_content,     \* the content lines waiting to be written
    seen_sections,       \* heading texts already written
    known_main_sections, \* main numbers already known
    in_code_block,
    code_block_lines,
    in_table,
    table_lines,
    section_at,          \* input position of the line that set current_section
    content_at,          \* input positions of the lines of current_content
    fence_at,            \* input position of the last opening fence
    table_at,            \* input position of the first buffered table row
    \* ---- split_sections (generator1.py, generator3.py, generator4.py) ----
    spc,                 \* position in split_sections
    gen,                 \* which module's split_sections runs
    segs,                \* the pieces the requirement text was written from
    document,            \* the local variable document
    sections,            \* the list re.split returned
    part_ix,             \* index of the next part of the for loop
    result,              \* the dict, as a sequence of [key, value] in insertion order
    split_current,       \* the local variable current_section of split_sections
    payload,             \* the argument of split_sections, by kind
    data,                \* the local variable data, by kind of value
    split_error,         \* the exception split_sections raised ("none": none)
    \* ---- add_paragraph (docx_writer.py) ----
    ppc,                 \* position in add_paragraph
    para_text,           \* the argument text
    cursor,              \* the local variable cursor, a 0-based offset
    runs,                \* the runs added to the paragraph, in order
    \* ---- process_payload_and_generate_abap (generator1.py) ----
    apc,                 \* position in process_payload_and_generate_abap
    sections_dict,       \* what split_sections returned: label -> body
    abap_ix,             \* index in ABAP_SECTIONS of the next grouping
    abap_result,         \* the dict abap_result: grouping -> output
    llm_calls,           \* the prompts llm.invoke was called with, in order
    llm_returned,        \* grouping -> stripped text the LLM returned for it
    \* ---- the job store (main1.py) ----
    JOBS,                \* job id -> [status, file_path, error]
    task,                \* job id -> position of its background task
    get_pc,              \* position of the GET handler in flight
    get_job,             \* the job id the GET handler in flight was called with
    get_path,            \* what the handler read from job["file_path"] first
    response             \* the last response a GET handler returned

docVars == <<pc, input, branch, doc, current_section, current_content,
             seen_sections, known_main_sections, in_code_block,
             code_block_lines, in_table, table_lines, section_at, content_at,
             fence_at, table_at>>
splitVars == <<spc, gen, segs, document, sections, part_ix, result,
               split_current, payload, data, split_error>>
paraVars == <<ppc, para_text, cursor, runs>>
abapVars == <<apc, sections_dict, abap_ix, abap_result, llm_calls, llm_returned>>
jobVars == <<JOBS, task, get_pc, get_job, get_path, response>>
restVars == <<paraVars, abapVars, jobVars>>
vars == <<docVars, splitVars, restVars>>

----------------------------------------------------------------------------
(* Bounds *)
MaxLines == 4
MaxSegs == 3

----------------------------------------------------------------------------
(* Tokens and the string operations of the source *)

\* \d of a str pattern compiled without re.ASCII: the decimal digits of
\* every script.  These are the ones a TLA+ string can hold; the others
\* (U+0660..U+0669 and the digits of the scripts not listed) have no token.
Digits ==
    \* U+0030..U+0039  ASCII
    {"0", "1", "2", "3", "4", "5", "6", "7", "8", "9"}
    \cup
    \* U+06F0..U+06F9  Extended Arabic-Indic
    {"۰", "۱", "۲", "۳", "۴", "۵", "۶", "۷", "۸", "۹"}
    \cup
    \* U+07C0..U+07C9  Nko
    {"߀", "߁", "߂", "߃", "߄", "߅", "߆", "߇", "߈", "߉"}
    \cup
    \* U+09E6..U+09EF  Bengali
    {"০", "১", "২", "৩", "৪", "৫", "৬", "৭", "৮", "৯"}
    \cup
    \* U+0AE6..U+0AEF  Gujarati
    {"૦", "૧", "૨", "૩", "૪", "૫", "૬", "૭", "૮", "૯"}
    \cup
    \* U+0BE6..U+0BEF  Tamil
    {"௦", "௧", "௨", "௩", "௪", "௫", "௬", "௭", "௮", "௯"}
    \cup
    \* U+0CE6..U+0CEF  Kannada
    {"೦", "೧", "೨", "೩", "೪", "೫", "೬", "೭", "೮", "೯"}
    \cup
    \* U+0DE6..U+0DEF  Sinhala Lith
    {"෦", "෧", "෨", "෩", "෪", "෫", "෬", "෭", "෮", "෯"}
    \cup
    \* U+0ED0..U+0ED9  Lao
    {"໐", "໑", "໒", "໓", "໔", "໕", "໖", "໗", "໘", "໙"}
    \cup
    \* U+1090..U+1099  Myanmar Shan
    {"႐", "႑", "႒", "႓", "႔", "႕", "႖", "႗", "႘", "႙"}
    \cup
    \* U+17E0..U+17E9  Khmer
    {"០", "១", "២", "៣", "៤", "៥", "៦", "៧", "៨", "៩"}
    \cup
    \* U+19D0..U+19D9  New Tai Lue
    {"᧐", "᧑", "᧒", "᧓", "᧔", "᧕", "᧖", "᧗", "᧘", "᧙"}
    \cup
    \* U+1A80..U+1A89  Tai Tham Hora
    {"᪀", "᪁", "᪂", "᪃", "᪄", "᪅", "᪆", "᪇", "᪈", "᪉"}
    \cup
    \* U+1A90..U+1A99  Tai Tham Tham
    {"᪐", "᪑", "᪒", "᪓", "᪔", "᪕", "᪖", "᪗", "᪘", "᪙"}
    \cup
    \* U+1BB0..U+1BB9  Sundanese
    {"᮰", "᮱", "᮲", "᮳", "᮴", "᮵", "᮶", "᮷", "᮸", "᮹"}
    \cup
    \* U+A8D0..U+A8D9  Saurashtra
    {"꣐", "꣑", "꣒", "꣓", "꣔", "꣕", "꣖", "꣗", "꣘", "꣙"}
    \cup
    \* U+A9D0..U+A9D9  Javanese
    {"꧐", "꧑", "꧒", "꧓", "꧔", "꧕", "꧖", "꧗", "꧘", "꧙"}
    \cup
    \* U+A9F0..U+A9F9  Myanmar Tai Laing
    {"꧰", "꧱", "꧲", "꧳", "꧴", "꧵", "꧶", "꧷", "꧸", "꧹"}
    \cup
    \* U+ABF0..U+ABF9  Meetei Mayek
    {"꯰", "꯱", "꯲", "꯳", "꯴", "꯵", "꯶", "꯷", "꯸", "꯹"}

\* \s of a str pattern, and the characters str.strip() removes: the
\* characters str.isspace() holds of.  These are the ones a TLA+ string can
\* hold; U+2000..U+200A, U+2028, U+2029, U+202F, U+205F and U+3000 have no
\* token.
Spaces ==
    \* U+0009 U+000A U+000B U+000C U+000D U+0020
    {"\t", "\n", "", "\f", "\r", " "}
    \cup
    \* U+001C U+001D U+001E U+001F  the information separators
    {"", "", "", ""}
    \cup
    \* U+0085 next line, U+00A0 no-break space, U+1680 ogham space mark
    {"", " ", " "}
\* the token of one backtick character (the character itself cannot be
\* written in a string of this language)
Backtick == "BACKTICK"
Punct == {".", ":", "|", Backtick, "*", "-", "(", ")"}

IsDigit(t) == t \in Digits
IsSpace(t) == t \in Spaces
\* [A-Za-z]
Letters ==
    {"A", "B", "C", "D", "E", "F", "G", "H", "I", "J", "K", "L", "M",
     "N", "O", "P", "Q", "R", "S", "T", "U", "V", "W", "X", "Y", "Z",
     "a", "b", "c", "d", "e", "f", "g", "h", "i", "j", "k", "l", "m",
     "n", "o", "p", "q", "r", "s", "t", "u", "v", "w", "x", "y", "z"}
\* the token is a word: one letter or more and nothing else
IsWord(t) ==
    /\ t # Backtick
    /\ Len(t) >= 1
    /\ \A i \in 1..Len(t) : SubSeq(t, i, i) \in Letters
\* [A-Za-z ]
IsTitleChar(t) == t = " " \/ IsWord(t)

\* s[i:] with i counted from 1
From(s, i) == SubSeq(s, i, Len(s))

\* number of leading tokens of s that are in the set cs
RECURSIVE LeadIn(_, _)
LeadIn(s, cs) ==
    IF s # <<>> /\ Head(s) \in cs THEN 1 + LeadIn(Tail(s), cs) ELSE 0

\* number of trailing tokens of s that are in the set cs
RECURSIVE TrailIn(_, _)
TrailIn(s, cs) ==
    IF s # <<>> /\ s[Len(s)] \in cs
    THEN 1 + TrailIn(SubSeq(s, 1, Len(s) - 1), cs) ELSE 0

\* str.strip(chars)
StripChars(s, cs) ==
    LET a == LeadIn(s, cs)
    IN  IF a = Len(s) THEN <<>> ELSE SubSeq(s, a + 1, Len(s) - TrailIn(s, cs))

\* str.strip()
Strip(s) == StripChars(s, Spaces)

\* number of leading tokens of s that differ from sep
RECURSIVE LeadNot(_, _)
LeadNot(s, sep) ==
    IF s # <<>> /\ Head(s) # sep THEN 1 + LeadNot(Tail(s), sep) ELSE 0

\* str.split(sep): the pieces between the occurrences of sep
RECURSIVE SplitOn(_, _)
SplitOn(s, sep) ==
    LET n == LeadNot(s, sep)
    IN  IF n = Len(s) THEN <<s>>
        ELSE <<SubSeq(s, 1, n)>> \o SplitOn(From(s, n + 2), sep)

\* number of leading digits of s
LeadDigits(s) == LeadIn(s, Digits)
\* number of leading whitespace tokens of s
LeadSpaces(s) == LeadIn(s, Spaces)

----------------------------------------------------------------------------
(* docx_writer.py: the patterns of generate_doc *)

\* line.startswith("```")
IsFence(line) ==
    Len(line) >= 3 /\ \A i \in 1..3 : line[i] = Backtick

\* table_line_pattern = ^\|(.+?)\|$
IsTableLine(line) ==
    Len(line) >= 3 /\ line[1] = "|" /\ line[Len(line)] = "|"

\* the match of  \s+(.+)$  on s: the start of the last group, 0 when there
\* is no match.  \s+ is greedy and gives one space back when nothing follows.
TailGroupStart(s) ==
    LET w == LeadSpaces(s)
    IN  IF w = 0 THEN 0
        ELSE IF w < Len(s) THEN w + 1
        ELSE IF w >= 2 THEN w
        ELSE 0

\* section_header_pattern = ^(\d+)\.\s+(.+)$
MainMatches(line) ==
    LET d == LeadDigits(line)
    IN  /\ d >= 1
        /\ Len(line) > d
        /\ line[d + 1] = "."
        /\ TailGroupStart(From(line, d + 2)) > 0
MainGroup1(line) == SubSeq(line, 1, LeadDigits(line))
MainGroup2(line) ==
    LET rest == From(line, LeadDigits(line) + 2)
    IN  From(rest, TailGroupStart(rest))

\* subheading_pattern = ^(\d+)\.(\d+)\s+(.+)$
SubMatches(line) ==
    LET d == LeadDigits(line)
        r == From(line, d + 2)
        e == LeadDigits(r)
    IN  /\ d >= 1
        /\ Len(line) > d
        /\ line[d + 1] = "."
        /\ e >= 1
        /\ TailGroupStart(From(r, e + 1)) > 0
SubGroup1(line) == SubSeq(line, 1, LeadDigits(line))
SubGroup2(line) ==
    LET r == From(line, LeadDigits(line) + 2)
    IN  SubSeq(r, 1, LeadDigits(r))
SubGroup3(line) ==
    LET r == From(line, LeadDigits(line) + 2)
        rest == From(r, LeadDigits(r) + 1)
    IN  From(rest, TailGroupStart(rest))

\* f"{main_match.group(1)}. {main_match.group(2)}"
SectionText(line) == MainGroup1(line) \o <<".", " ">> \o MainGroup2(line)
\* f"{main_number}. (Auto) Section"
AutoTitle(main_number) ==
    main_number \o <<".", " ", "(", "Auto", ")", " ", "Section">>
\* f"{main_number}.{sub_number} {sub_title}"
SubheadingText(line) ==
    SubGroup1(line) \o <<".">> \o SubGroup2(line) \o <<" ">> \o SubGroup3(line)

----------------------------------------------------------------------------
(* docx_writer.py: the blocks written to the document *)

Block(kind, text, lines, hdr, rows, first, auto) ==
    [kind |-> kind, text |-> text, lines |-> lines, hdr |-> hdr,
     rows |-> rows, first |-> first, auto |-> auto]

\* doc.add_heading(title, level=1)
TitleBlock(title) == Block("Title", title, <<>>, <<>>, <<>>, 0, FALSE)
\* add_heading(doc, text); auto marks the heading made up for a subheading
HeadingBlock(text, at, auto) == Block("Heading", text, <<>>, <<>>, <<>>, at, auto)
\* add_subheading(doc, text)
SubheadingBlock(text, at) == Block("Subheading", text, <<>>, <<>>, <<>>, at, FALSE)
\* add_paragraph(doc, text)
ParagraphBlock(text, at) == Block("Paragraph", text, <<>>, <<>>, <<>>, at, FALSE)
\* add_code_block(doc, code_lines)
CodeBlock(lines, at) == Block("CodeBlock", <<>>, lines, <<>>, <<>>, at, FALSE)

\* [cell ... for cell in line.split("|") if cell.strip()]
Cells(line) == SelectSeq(SplitOn(line, "|"), LAMBDA c : Strip(c) # <<>>)
\* headers of add_markdown_table: cell.strip(" *")
TableHeaders(lines) ==
    LET cs == Cells(lines[1])
    IN  [i \in 1..Len(cs) |-> StripChars(cs[i], {" ", "*"})]
\* rows of add_markdown_table: lines[2:], cell.strip()
TableRows(lines) ==
    [r \in 1..(IF Len(lines) > 2 THEN Len(lines) - 2 ELSE 0) |->
        LET cs == Cells(lines[r + 2])
        IN  [i \in 1..Len(cs) |-> Strip(cs[i])]]

\* row_cells[i].text = cell raises IndexError when i reaches the number of
\* columns of the table: the index of the first row that raises, 0 if none
RECURSIVE FirstLongRow(_, _, _)
FirstLongRow(rows, cols, r) ==
    IF r > Len(rows) THEN 0
    ELSE IF Len(rows[r]) > cols THEN r
    ELSE FirstLongRow(rows, cols, r + 1)
TableRaises(lines) ==
    FirstLongRow(TableRows(lines), Len(TableHeaders(lines)), 1) > 0

\* the cells of one table row after the loop over enumerate(row): the cells
\* the row has, the other cells of the row left empty
WrittenRow(row, cols) ==
    [i \in 1..cols |-> IF i <= Len(row) THEN row[i] ELSE <<>>]

\* add_markdown_table(doc, lines): the table as it stands when the function
\* returns or raises
TableBlock(lines, at) ==
    LET hdr == TableHeaders(lines)
        rows == TableRows(lines)
        bad == FirstLongRow(rows, Len(hdr), 1)
        n == IF bad > 0 THEN bad ELSE Len(rows)
    IN  Block("Table", <<>>, lines, hdr,
              [r \in 1..n |-> WrittenRow(rows[r], Len(hdr))], at, FALSE)

----------------------------------------------------------------------------
(* docx_writer.py: flush_section *)

\* flush_section without the test of seen_sections
HeadingDueUnseenDropped(section, seen) == section # <<>>

\* if current_section and current_section not in seen_sections
HeadingDue(section, seen) == section # <<>> /\ section \notin seen

\* the document after flush_section()
FlushedDoc ==
    (IF HeadingDue(current_section, seen_sections)
     THEN Append(doc, HeadingBlock(current_section, section_at, FALSE))
     ELSE doc)
    \o [i \in 1..Len(current_content) |->
           ParagraphBlock(current_content[i], content_at[i])]
\* seen_sections after flush_section()
FlushedSeen ==
    IF HeadingDue(current_section, seen_sections)
    THEN seen_sections \cup {current_section}
    ELSE seen_sections

----------------------------------------------------------------------------
(* docx_writer.py: generate_doc *)

\* the lines ts_text.splitlines() may hold
LineSet ==
    { <<>>,                                   \* a blank line
      <<Backtick, Backtick, Backtick>>,       \* a fence
      <<"|", "a", "|">>,                      \* a pipe row of one cell
      <<"|", "a", "|", "b", "|">>,            \* a pipe row of two cells
      <<"3", ".", " ", "A">>,                 \* a heading line
      <<" ", "3", ".", " ", " ", "B">>,       \* a heading line, same number
      <<"3", ".", " ", "(", "Auto", ")", " ", "Section">>,
      <<"3", ".", "1", " ", "S">>,            \* a subheading line
      <<"3", ".", "2", " ", "T">>,            \* a subheading line, same number
      <<"p">> }                               \* a content line

\* the title the public functions pass
TitleSet == { <<"FUNCTIONAL", " ", "SPECIFICATION">>,
              <<"TECHNICAL", " ", "SPECIFICATION">> }

NoPayload == [type |-> "none", value |-> "none", req |-> "none"]

SplitIdle ==
    /\ spc = "idle" /\ gen = "none" /\ segs = <<>> /\ document = <<>>
    /\ sections = <<>> /\ part_ix = 0 /\ result = <<>> /\ split_current = <<>>
    /\ payload = NoPayload /\ data = "unset" /\ split_error = "none"

ParaIdle ==
    /\ ppc = "idle" /\ para_text = <<>> /\ cursor = 0 /\ runs = <<>>

AbapIdle ==
    /\ apc = "idle" /\ sections_dict = <<>> /\ abap_ix = 0
    /\ abap_result = <<>> /\ llm_calls = <<>> /\ llm_returned = <<>>

NoResponse ==
    [kind |-> "none", job |-> 0, status |-> "none", value |-> "None",
     filename |-> "None"]

JobsIdle ==
    /\ JOBS = <<>> /\ task = <<>> /\ get_pc = "idle" /\ get_job = 0
    /\ get_path = "None" /\ response = NoResponse

RestIdle == ParaIdle /\ AbapIdle /\ JobsIdle

\* generate_doc up to the for loop
Init ==
    /\ pc = "loop"
    /\ input = <<>>
    /\ branch = "start"
    /\ \E title \in TitleSet : doc = <<TitleBlock(title)>>
    /\ current_section = <<>>
    /\ current_content = <<>>
    /\ seen_sections = {}
    /\ known_main_sections = {}
    /\ in_code_block = FALSE
    /\ code_block_lines = <<>>
    /\ in_table = FALSE
    /\ table_lines = <<>>
    /\ section_at = 0
    /\ content_at = <<>>
    /\ fence_at = 0
    /\ table_at = 0
    /\ SplitIdle
    /\ RestIdle

\* the for loop takes the next line of the input
Reads(raw) ==
    /\ pc = "loop"
    /\ Len(input) < MaxLines
    /\ input' = Append(input, raw)

\* position of the line being read
Here == Len(input) + 1

\* if not line: continue
SkipBlank(raw) ==
    /\ Reads(raw)
    /\ Strip(raw) = <<>>
    /\ branch' = "blank"
    /\ UNCHANGED <<pc, doc, current_section, current_content, seen_sections,
                   known_main_sections, in_code_block, code_block_lines,
                   in_table, table_lines, section_at, content_at, fence_at,
                   table_at, splitVars, restVars>>

\* if line.startswith("```")
FenceLine(raw) ==
    LET line == Strip(raw)
    IN  /\ Reads(raw)
        /\ line # <<>>
        /\ IsFence(line)
        /\ branch' = "fence"
        /\ in_code_block' = ~in_code_block
        /\ IF in_code_block
           THEN /\ doc' = Append(doc, CodeBlock(code_block_lines, fence_at))
                /\ code_block_lines' = <<>>
                /\ UNCHANGED fence_at
           ELSE /\ fence_at' = Here
                /\ UNCHANGED <<doc, code_block_lines>>
        /\ UNCHANGED <<pc, current_section, current_content, seen_sections,
                       known_main_sections, in_table, table_lines, section_at,
                       content_at, table_at, splitVars, restVars>>

\* elif in_code_block
CodeLine(raw) ==
    LET line == Strip(raw)
    IN  /\ Reads(raw)
        /\ line # <<>>
        /\ ~IsFence(line)
        /\ in_code_block
        /\ branch' = "code"
        /\ code_block_lines' = Append(code_block_lines, line)
        /\ UNCHANGED <<pc, doc, current_section, current_content,
                       seen_sections, known_main_sections, in_code_block,
                       in_table, table_lines, section_at, content_at, fence_at,
                       table_at, splitVars, restVars>>

\* the table and heading tests reached inside a fence as well
PastCodeInFence(line) == line # <<>> /\ ~IsFence(line)

\* the line reaches the table handling
PastCode(line) == line # <<>> /\ ~IsFence(line) /\ ~in_code_block

\* if table_line_pattern.match(line)
TableRow(raw) ==
    LET line == Strip(raw)
    IN  /\ Reads(raw)
        /\ PastCode(line)
        /\ IsTableLine(line)
        /\ branch' = "row"
        /\ table_lines' = Append(table_lines, line)
        /\ in_table' = TRUE
        /\ table_at' = IF table_lines = <<>> THEN Here ELSE table_at
        /\ UNCHANGED <<pc, doc, current_section, current_content,
                       seen_sections, known_main_sections, in_code_block,
                       code_block_lines, section_at, content_at, fence_at,
                       splitVars, restVars>>

\* elif in_table: the table is written and the line is dropped; the
\* IndexError of add_markdown_table leaves generate_doc before doc.save
TableEnd(raw) ==
    LET line == Strip(raw)
    IN  /\ Reads(raw)
        /\ PastCode(line)
        /\ ~IsTableLine(line)
        /\ in_table
        /\ branch' = "tableend"
        /\ doc' = Append(FlushedDoc, TableBlock(table_lines, table_at))
        /\ seen_sections' = FlushedSeen
        /\ current_content' = <<>>
        /\ content_at' = <<>>
        /\ IF TableRaises(table_lines)
           THEN /\ pc' = "error"
                /\ UNCHANGED <<table_lines, in_table>>
           ELSE /\ table_lines' = <<>>
                /\ in_table' = FALSE
                /\ UNCHANGED pc
        /\ UNCHANGED <<current_section, known_main_sections, in_code_block,
                       code_block_lines, section_at, fence_at, table_at,
                       splitVars, restVars>>

\* the line reaches the heading patterns
PastTable(line) == PastCode(line) /\ ~IsTableLine(line) /\ ~in_table

\* if main_match
MainSection(raw) ==
    LET line == Strip(raw)
    IN  /\ Reads(raw)
        /\ PastTable(line)
        /\ MainMatches(line)
        /\ branch' = "main"
        /\ doc' = FlushedDoc
        /\ seen_sections' = FlushedSeen
        /\ current_content' = <<>>
        /\ content_at' = <<>>
        /\ current_section' = SectionText(line)
        /\ section_at' = Here
        /\ known_main_sections' = known_main_sections \cup {MainGroup1(line)}
        /\ UNCHANGED <<pc, in_code_block, code_block_lines, in_table,
                       table_lines, fence_at, table_at, splitVars, restVars>>

\* the placeholder written for every subheading, both tests dropped
PlaceholderDueUntested(main_number, known, seen) == TRUE

\* if main_number not in known_main_sections:
\*     if main_title not in seen_sections
PlaceholderDue(main_number, known, seen) ==
    main_number \notin known /\ AutoTitle(main_number) \notin seen

\* if sub_match
SubSection(raw) ==
    LET line == Strip(raw)
        main_number == SubGroup1(line)
        due == PlaceholderDue(main_number, known_main_sections, FlushedSeen)
    IN  /\ Reads(raw)
        /\ PastTable(line)
        /\ ~MainMatches(line)
        /\ SubMatches(line)
        /\ branch' = "sub"
        /\ doc' = (IF due
                   THEN Append(FlushedDoc,
                               HeadingBlock(AutoTitle(main_number), Here, TRUE))
                   ELSE FlushedDoc)
                  \o <<SubheadingBlock(SubheadingText(line), Here)>>
        /\ seen_sections' = IF due
                            THEN FlushedSeen \cup {AutoTitle(main_number)}
                            ELSE FlushedSeen
        /\ known_main_sections' = IF due
                                  THEN known_main_sections \cup {main_number}
                                  ELSE known_main_sections
        /\ current_content' = <<>>
        /\ content_at' = <<>>
        /\ UNCHANGED <<pc, current_section, in_code_block, code_block_lines,
                       in_table, table_lines, section_at, fence_at, table_at,
                       splitVars, restVars>>

\* current_content.append(line)
Content(raw) ==
    LET line == Strip(raw)
    IN  /\ Reads(raw)
        /\ PastTable(line)
        /\ ~MainMatches(line)
        /\ ~SubMatches(line)
        /\ branch' = "content"
        /\ current_content' = Append(current_content, line)
        /\ content_at' = Append(content_at, Here)
        /\ UNCHANGED <<pc, doc, current_section, seen_sections,
                       known_main_sections, in_code_block, code_block_lines,
                       in_table, table_lines, section_at, fence_at, table_at,
                       splitVars, restVars>>

\* the input has no further line: flush_section(); doc.save(file_obj)
FinalFlush ==
    /\ pc = "loop"
    /\ pc' = "done"
    /\ branch' = "final"
    /\ doc' = FlushedDoc
    /\ seen_sections' = FlushedSeen
    /\ current_content' = <<>>
    /\ content_at' = <<>>
    /\ UNCHANGED <<input, current_section, known_main_sections, in_code_block,
                   code_block_lines, in_table, table_lines, section_at,
                   fence_at, table_at, splitVars, restVars>>

Next ==
    \/ \E raw \in LineSet : SkipBlank(raw)
    \/ \E raw \in LineSet : FenceLine(raw)
    \/ \E raw \in LineSet : CodeLine(raw)
    \/ \E raw \in LineSet : TableRow(raw)
    \/ \E raw \in LineSet : TableEnd(raw)
    \/ \E raw \in LineSet : MainSection(raw)
    \/ \E raw \in LineSet : SubSection(raw)
    \/ \E raw \in LineSet : Content(raw)
    \/ FinalFlush

Spec == Init /\ [][Next]_vars

----------------------------------------------------------------------------
(* generator1.py, generator3.py, generator4.py: the patterns of split_sections *)

\* SECTION\s*:?\s*  at the start of r: the number of tokens it takes, 0 when
\* r does not start with SECTION.  (\s*:?\s*\n*\s* takes the same tokens.)
MarkerLen(r) ==
    IF r = <<>> \/ Head(r) # "SECTION" THEN 0
    ELSE LET a == LeadSpaces(From(r, 2))
             c == IF Len(r) >= a + 2 /\ r[a + 2] = ":" THEN 1 ELSE 0
             b == IF c = 1 THEN LeadSpaces(From(r, a + 3)) ELSE 0
         IN  1 + a + c + b

\* SECTION:\s*  at the start of r
CanonMarkerLen(r) ==
    IF Len(r) >= 2 /\ r[1] = "SECTION" /\ r[2] = ":"
    THEN 2 + LeadSpaces(From(r, 3)) ELSE 0

\* \d+\.  at the start of r
NumberLen(r) ==
    LET d == LeadDigits(r)
    IN  IF d >= 1 /\ Len(r) > d /\ r[d + 1] = "." THEN d + 1 ELSE 0

\* the largest j in 2..w with r[j] = " ", 0 when there is none
RECURSIVE LastBlank(_, _)
LastBlank(r, w) ==
    IF w < 2 THEN 0 ELSE IF r[w] = " " THEN w ELSE LastBlank(r, w - 1)

\* \s+[A-Za-z ]+  at the start of r.  \s+ is greedy; when no title character
\* follows the whitespace it gives tokens back until the title can start
\* with a blank it held.
TitleLen(r) ==
    LET w == LeadSpaces(r)
        t == LeadIn(From(r, w + 1), {x \in {r[i] : i \in 1..Len(r)} : IsTitleChar(x)})
    IN  IF w = 0 THEN 0
        ELSE IF t > 0 THEN w + t
        ELSE LastBlank(r, w)

\* SECTION\s*:?\s*\d+\.  at the start of r (pass 1)
Marker1Len(r) ==
    LET m == MarkerLen(r)
        n == IF m > 0 THEN NumberLen(From(r, m + 1)) ELSE 0
    IN  IF n > 0 THEN m + n ELSE 0

\* the header of pass 2 or of passes 3 and 4 at the start of r, after a
\* marker of m tokens: its length, 0 when it does not match
HeaderAfter(r, m) ==
    LET n == IF m > 0 THEN NumberLen(From(r, m + 1)) ELSE 0
        t == IF n > 0 THEN TitleLen(From(r, m + n + 1)) ELSE 0
    IN  IF t > 0 THEN m + n + t ELSE 0

\* SECTION\s*:?\s*\n*\s*(\d+\.\s+[A-Za-z ]+)  at the start of r (pass 2)
Header2Len(r) == HeaderAfter(r, MarkerLen(r))
\* (SECTION:\s*\d+\.\s+[A-Za-z ]+)  at the start of r (passes 3, 4, re.match)
HeaderLen(r) == HeaderAfter(r, CanonMarkerLen(r))

\* the literal SECTION at the end of the token t: the only place of a word
\* where a match of a header pattern can begin, since whitespace, a colon or
\* a digit has to follow the literal
EndsSection(t) ==
    Len(t) >= 7 /\ SubSeq(t, Len(t) - 6, Len(t)) = "SECTION"

\* r from the place in its first token where a match can begin
AtSection(r) ==
    IF r # <<>> /\ EndsSection(Head(r)) THEN <<"SECTION">> \o Tail(r) ELSE r

\* the letters of r's first token before that place, as text
Glued(r) ==
    IF r # <<>> /\ EndsSection(Head(r)) /\ Head(r) # "SECTION"
    THEN <<SubSeq(Head(r), 1, Len(Head(r)) - 7)>> ELSE <<>>

\* re.sub(r"(?<!\n)(SECTION\s*:?\s*\d+\.)", r"\n\1", document), from token i.
\* Inside a word the character before the match is a letter, so the
\* lookbehind holds.
RECURSIVE Pass1From(_, _)
Pass1From(s, i) ==
    IF i > Len(s) THEN <<>>
    ELSE LET r == From(s, i)
             a == AtSection(r)
             n == IF Glued(r) # <<>> \/ i = 1 \/ s[i - 1] # "\n"
                  THEN Marker1Len(a) ELSE 0
         IN  IF n > 0
             THEN Glued(r) \o <<"\n">> \o SubSeq(a, 1, n) \o Pass1From(s, i + n)
             ELSE <<s[i]>> \o Pass1From(s, i + 1)
Pass1(s) == Pass1From(s, 1)

\* re.sub(r"SECTION\s*:?\s*\n*\s*(\d+\.\s+[A-Za-z ]+)", r"SECTION: \1", document)
RECURSIVE Pass2From(_, _)
Pass2From(s, i) ==
    IF i > Len(s) THEN <<>>
    ELSE LET r == From(s, i)
             a == AtSection(r)
             n == Header2Len(a)
         IN  IF n > 0
             THEN <<Head(r), ":", " ">> \o SubSeq(a, MarkerLen(a) + 1, n)
                  \o Pass2From(s, i + n)
             ELSE <<s[i]>> \o Pass2From(s, i + 1)
Pass2(s) == Pass2From(s, 1)

\* re.sub(r"(SECTION:\s*\d+\.\s+[A-Za-z ]+)", r"\1\n", document)
RECURSIVE Pass3From(_, _)
Pass3From(s, i) ==
    IF i > Len(s) THEN <<>>
    ELSE LET n == HeaderLen(AtSection(From(s, i)))
         IN  IF n > 0
             THEN SubSeq(s, i, i + n - 1) \o <<"\n">> \o Pass3From(s, i + n)
             ELSE <<s[i]>> \o Pass3From(s, i + 1)
Pass3(s) == Pass3From(s, 1)

\* the three passes in the order of the source
Normalizer(s) == Pass3(Pass2(Pass1(s)))

\* re.split(r"(SECTION:\s*\d+\.\s+[A-Za-z ]+)", document): the text before
\* each header, the header, and the text after the last header; from is the
\* start of the text being collected, i the token being tried.  A header
\* that begins inside a word leaves the word's first letters to the text
\* before it.
RECURSIVE SplitFrom(_, _, _)
SplitFrom(s, from, i) ==
    IF i > Len(s) THEN <<SubSeq(s, from, Len(s))>>
    ELSE LET r == From(s, i)
             a == AtSection(r)
             n == HeaderLen(a)
         IN  IF n > 0
             THEN <<SubSeq(s, from, i - 1) \o Glued(r), SubSeq(a, 1, n)>>
                  \o SplitFrom(s, i + n, i + n)
             ELSE SplitFrom(s, from, i + 1)
ReSplit(s) == SplitFrom(s, 1, 1)

\* part.startswith("SECTION:")
StartsWithSection(part) ==
    Len(part) >= 2 /\ part[1] = "SECTION" /\ part[2] = ":"

----------------------------------------------------------------------------
(* generator1.py, generator3.py, generator4.py: split_sections *)

Generators == {"generator1", "generator3", "generator4"}

\* a piece of requirement text: a header line written with some marker, or
\* body text
HeaderPiece(marker, num, gap, title) ==
    [kind |-> "header", marker |-> marker, num |-> num, gap |-> gap,
     title |-> title, text |-> <<>>]
TextPiece(text) ==
    [kind |-> "text", marker |-> <<>>, num |-> <<>>, gap |-> <<>>,
     title |-> <<>>, text |-> text]

\* the pieces requirement texts are written from
PieceSet ==
    { HeaderPiece(<<"SECTION", ":", " ">>, <<"1">>, <<" ">>, <<"Purpose">>),
      HeaderPiece(<<"SECTION", ":">>, <<"1">>, <<" ">>, <<"Purpose">>),
      HeaderPiece(<<"SECTION", "\n", ":", "\n">>, <<"1">>, <<" ">>, <<"Purpose">>),
      HeaderPiece(<<"SECTION", " ">>, <<"2">>, <<" ">>, <<"Scope">>),
      HeaderPiece(<<"SECTION", " ", ":", " ">>, <<"2">>, <<" ">>, <<"Scope">>),
      HeaderPiece(<<"SECTION", ":", " ">>, <<"0", "1">>, <<" ">>, <<"Purpose">>),
      HeaderPiece(<<"SECTION", ":", " ">>, <<"1">>, <<" ", " ">>, <<"Purpose">>),
      HeaderPiece(<<"SECTION", ":", " ">>, <<"4">>, <<" ">>,
                  <<"User", " ", " ", "Interface">>),
      TextPiece(<<"Do", " ", "X", ".", "\n">>),
      TextPiece(<<"Do", " ", "Y", ".">>),
      TextPiece(<<"SECTION", ":", " ", "see", " ", "appendix", "\n">>) }

\* the text of a piece; a header line ends with a line break
PieceText(p) ==
    IF p.kind = "header"
    THEN p.marker \o p.num \o <<".">> \o p.gap \o p.title \o <<"\n">>
    ELSE p.text

RECURSIVE Concat(_)
Concat(ps) == IF ps = <<>> THEN <<>> ELSE PieceText(Head(ps)) \o Concat(Tail(ps))

\* the sequences of at most n pieces
RECURSIVE PiecesUpTo(_)
PiecesUpTo(n) ==
    IF n = 0 THEN {<<>>}
    ELSE PiecesUpTo(n - 1)
         \cup {Append(ps, p) : ps \in {q \in PiecesUpTo(n - 1) : Len(q) = n - 1},
                               p \in PieceSet}

DocIdle ==
    /\ pc = "idle" /\ input = <<>> /\ branch = "none" /\ doc = <<>>
    /\ current_section = <<>> /\ current_content = <<>>
    /\ seen_sections = {} /\ known_main_sections = {}
    /\ in_code_block = FALSE /\ code_block_lines = <<>>
    /\ in_table = FALSE /\ table_lines = <<>>
    /\ section_at = 0 /\ content_at = <<>> /\ fence_at = 0 /\ table_at = 0

\* The payloads split_sections is called with, by kind: the type of the
\* argument, the kind of value a string decodes to (json.loads) or a dict
\* is, and the kind of its value under "REQUIREMENT".  "deep" and
\* "deep_object" are texts whose brackets nest deeper than the interpreter's
\* recursion limit lets json.loads descend: "deep" is an array or is not
\* JSON, "deep_object" is a JSON object that holds such a value under a key
\* other than "REQUIREMENT".
PayloadSet ==
    {[type |-> "other", value |-> "other", req |-> "none"]}
    \cup {[type |-> "str", value |-> v, req |-> "none"] :
              v \in {"invalid", "array", "number", "string", "null", "deep"}}
    \cup {[type |-> "str", value |-> "deep_object", req |-> "absent"]}
    \cup {[type |-> t, value |-> "object", req |-> r] :
              t \in {"str", "dict"}, r \in {"string", "absent", "null", "number"}}

\* split_sections at its first statement
InitSplit ==
    /\ spc = "payload"
    /\ gen \in Generators
    /\ payload \in PayloadSet
    /\ segs \in (IF payload.req = "string" THEN PiecesUpTo(MaxSegs) ELSE {<<>>})
    /\ data = "unset"
    /\ split_error = "none"
    /\ document = <<>>
    /\ sections = <<>>
    /\ part_ix = 0
    /\ result = <<>>
    /\ split_current = <<>>
    /\ DocIdle
    /\ RestIdle

\* if isinstance(payload, str): data = json.loads(payload)
\* elif isinstance(payload, dict): data = payload
\* else: raise ValueError(...).  json.loads raises JSONDecodeError, a
\* subclass of ValueError, for a string that is not JSON, and RecursionError,
\* a subclass of RuntimeError, when it runs out of stack in nested brackets
\* before it has read the text to its end.
LoadPayload ==
    /\ spc = "payload"
    /\ IF payload.type = "str" /\ payload.value \in {"deep", "deep_object"}
       THEN /\ spc' = "raised"
            /\ split_error' = "RecursionError"
            /\ UNCHANGED data
       ELSE IF payload.type = "str" /\ payload.value # "invalid"
       THEN /\ data' = payload.value
            /\ spc' = "get"
            /\ UNCHANGED split_error
       ELSE IF payload.type = "dict"
       THEN /\ data' = "object"
            /\ spc' = "get"
            /\ UNCHANGED split_error
       ELSE /\ spc' = "raised"
            /\ split_error' = "ValueError"
            /\ UNCHANGED data
    /\ UNCHANGED <<gen, segs, document, sections, part_ix, result,
                   split_current, payload, docVars, restVars>>

\* document = data.get("REQUIREMENT", ""): a list, a number, a string and
\* None have no attribute get
GetRequirement ==
    /\ spc = "get"
    /\ IF data = "object"
       THEN /\ document' = (IF payload.req = "string" THEN Concat(segs) ELSE <<>>)
            /\ spc' = "pass1"
            /\ UNCHANGED split_error
       ELSE /\ spc' = "raised"
            /\ split_error' = "AttributeError"
            /\ UNCHANGED document
    /\ UNCHANGED <<gen, segs, sections, part_ix, result, split_current,
                   payload, data, docVars, restVars>>

\* The value under "REQUIREMENT" is a string, or the key is absent and the
\* default "" stands for it
DocumentIsText == payload.req \in {"string", "absent"}

\* A value that is no string stops the first statement that uses it:
\* re.sub raises TypeError (generator1, generator3), document.strip raises
\* AttributeError (generator4)
RaiseNotText ==
    /\ spc = "pass1"
    /\ ~DocumentIsText
    /\ spc' = "raised"
    /\ split_error' = (IF gen = "generator4" THEN "AttributeError" ELSE "TypeError")
    /\ UNCHANGED <<gen, segs, document, sections, part_ix, result,
                   split_current, payload, data, docVars, restVars>>

\* 1: SECTION headers start on a new line
RunPass1 ==
    /\ spc = "pass1"
    /\ DocumentIsText
    /\ document' = Pass1(document)
    /\ spc' = "pass2"
    /\ UNCHANGED <<gen, segs, sections, part_ix, result, split_current,
                   payload, data, split_error, docVars, restVars>>

\* 2: header variants are normalized
RunPass2 ==
    /\ spc = "pass2"
    /\ document' = Pass2(document)
    /\ spc' = "pass3"
    /\ UNCHANGED <<gen, segs, sections, part_ix, result, split_current,
                   payload, data, split_error, docVars, restVars>>

\* 3: a newline after each header
RunPass3 ==
    /\ spc = "pass3"
    /\ document' = Pass3(document)
    /\ spc' = "split"
    /\ UNCHANGED <<gen, segs, sections, part_ix, result, split_current,
                   payload, data, split_error, docVars, restVars>>

\* 4: sections = re.split(...); result = {}; current_section = None
RunSplit ==
    /\ spc = "split"
    /\ sections' = ReSplit(document)
    /\ part_ix' = 1
    /\ result' = <<>>
    /\ split_current' = <<>>
    /\ spc' = "loop"
    /\ UNCHANGED <<gen, segs, document,
                   payload, data, split_error, docVars, restVars>>

\* the part of this turn of the for loop, stripped
ThisPart == Strip(sections[part_ix])
InLoop == spc = "loop" /\ part_ix <= Len(sections)

Keys(res) == {res[i].key : i \in 1..Len(res)}
KeyIx(res, k) == CHOOSE i \in 1..Len(res) : res[i].key = k

\* result[key] = value, the key keeping its place when it is there already
SetItem(res, k, v) ==
    IF k \in Keys(res)
    THEN [res EXCEPT ![KeyIx(res, k)].value = v]
    ELSE Append(res, [key |-> k, value |-> v])

\* if not part: continue
PartBlank ==
    /\ InLoop
    /\ ThisPart = <<>>
    /\ part_ix' = part_ix + 1
    /\ UNCHANGED <<spc, gen, segs, document, sections, result, split_current,
                   payload, data, split_error, docVars, restVars>>

\* generator1: the part matched again; the key is made only when it is new
HeaderPart1(part, res, cur) ==
    LET n == HeaderLen(part)
        label == Strip(SubSeq(part, 1, n))
    IN  IF n = 0 THEN <<res, cur>>
        ELSE IF label \in Keys(res) THEN <<res, label>>
        ELSE <<SetItem(res, label, <<>>), label>>

\* generator3, generator4: current_section = part; result[current_section] = ""
HeaderPart3(part, res, cur) == <<SetItem(res, part, <<>>), part>>

\* if part.startswith("SECTION:")
PartHeader ==
    /\ InLoop
    /\ ThisPart # <<>>
    /\ StartsWithSection(ThisPart)
    /\ LET next == IF gen = "generator1"
                   THEN HeaderPart1(ThisPart, result, split_current)
                   ELSE HeaderPart3(ThisPart, result, split_current)
       IN  /\ result' = next[1]
           /\ split_current' = next[2]
    /\ part_ix' = part_ix + 1
    /\ UNCHANGED <<spc, gen, segs, document, sections,
                   payload, data, split_error, docVars, restVars>>

\* else: if current_section: result[current_section] += part.strip() + "\n"
PartBody ==
    /\ InLoop
    /\ ThisPart # <<>>
    /\ ~StartsWithSection(ThisPart)
    /\ result' = IF split_current # <<>>
                 THEN SetItem(result, split_current,
                              result[KeyIx(result, split_current)].value
                                \o Strip(ThisPart) \o <<"\n">>)
                 ELSE result
    /\ part_ix' = part_ix + 1
    /\ UNCHANGED <<spc, gen, segs, document, sections, split_current,
                   payload, data, split_error, docVars, restVars>>

\* return result
Return ==
    /\ spc = "loop"
    /\ part_ix > Len(sections)
    /\ spc' = "done"
    /\ UNCHANGED <<gen, segs, document, sections, part_ix, result,
                   split_current,
                   payload, data, split_error, docVars, restVars>>

NextSplit ==
    \/ LoadPayload
    \/ GetRequirement
    \/ RaiseNotText
    \/ RunPass1
    \/ RunPass2
    \/ RunPass3
    \/ RunSplit
    \/ PartBlank
    \/ PartHeader
    \/ PartBody
    \/ Return

SpecSplit == InitSplit /\ [][NextSplit]_vars

----------------------------------------------------------------------------
(* process_payload_and_generate_abap (generator1.py) *)

\* most keys of the section map the groupings are run on
MaxKeys == 3

ABAP_SECTIONS ==
    <<"global_declaration", "selection_screen", "processing_logic",
      "output_display">>

\* 'SECTION: <num>. <title>'
UddLabel(num, title) == <<"SECTION", ":", " ">> \o num \o <<".", " ">> \o title

\* the ten labels DEFAULT_UDD_MAPPING names, by number
UddLabels ==
    << UddLabel(<<"1">>, <<"Purpose">>),
       UddLabel(<<"2">>, <<"Scope">>),
       UddLabel(<<"3">>, <<"Functional", " ", "Requirements">>),
       UddLabel(<<"4">>, <<"User", " ", "Interface">>),
       UddLabel(<<"5">>, <<"Technical", " ", "Architecture">>),
       UddLabel(<<"6">>, <<"Error", " ", "Handling">>),
       UddLabel(<<"7">>, <<"Performance", " ", "Notes">>),
       UddLabel(<<"8">>, <<"Authorization">>),
       UddLabel(<<"9">>, <<"Sample", " ", "Report", " ", "Output", " ", "Layouts">>),
       UddLabel(<<"1", "0">>, <<"Unit", " ", "Test", " ", "Plan">>) >>

DEFAULT_UDD_MAPPING ==
    [selection_screen |-> <<UddLabels[4]>>,
     global_declaration |-> <<UddLabels[4], UddLabels[5]>>,
     processing_logic |-> UddLabels,
     output_display |-> <<UddLabels[4], UddLabels[5], UddLabels[6],
                          UddLabels[7], UddLabels[9], UddLabels[10]>>]

\* "[Error: No requirements found]"
Sentinel ==
    <<"[", "Error", ":", " ", "No", " ", "requirements", " ", "found", "]">>

\* dict.get(k, default)
DictGet(res, k, default) ==
    IF k \in Keys(res) THEN res[KeyIx(res, k)].value ELSE default

\* sep.join(texts)
RECURSIVE Join(_, _)
Join(texts, sep) ==
    IF texts = <<>> THEN <<>>
    ELSE IF Len(texts) = 1 THEN texts[1]
    ELSE texts[1] \o sep \o Join(Tail(texts), sep)

NonEmpty(text) == text # <<>>

\* the section map with the labels f marks "empty" (no text under the
\* header) or "text" (one line under it), from label n on
RECURSIVE DictFrom(_, _)
DictFrom(f, n) ==
    IF n > Len(UddLabels) THEN <<>>
    ELSE (IF f[n] = "absent" THEN <<>>
          ELSE <<[key |-> UddLabels[n],
                  value |-> IF f[n] = "empty" THEN <<>>
                            ELSE <<"Details", " ", "of", " ">>
                                 \o SubSeq(UddLabels[n], 4, Len(UddLabels[n]))
                                 \o <<"\n">>]>>)
         \o DictFrom(f, n + 1)

\* the section maps of at most k labels, each body empty or one line
DictSet(k) ==
    {DictFrom(f, 1) :
        f \in {g \in [1..Len(UddLabels) -> {"absent", "empty", "text"}] :
                  Cardinality({n \in 1..Len(UddLabels) : g[n] # "absent"}) <= k}}

\* what llm.invoke may return for a grouping: code with blank space around
\* it, or blank space only
ResponseSet(abap_section) ==
    { <<"\n", "DATA", " ", abap_section, ".", "\n">>, <<" ", "\n">> }

\* process_payload_and_generate_abap when split_sections has returned
InitAbap ==
    /\ apc = "loop"
    /\ sections_dict \in DictSet(MaxKeys)
    /\ abap_ix = 1
    /\ abap_result = <<>>
    /\ llm_calls = <<>>
    /\ llm_returned = <<>>
    /\ DocIdle /\ SplitIdle /\ ParaIdle /\ JobsIdle

\* mapped_sections = udd_mapping.get(abap_section, [])
\* "\n\n".join(sections_dict.get(sec, "") for sec in mapped_sections
\*             if sec in sections_dict)
RECURSIVE MappedBodies(_, _)
MappedBodies(mapped, dict) ==
    IF mapped = <<>> THEN <<>>
    ELSE (IF Head(mapped) \in Keys(dict)
          THEN <<DictGet(dict, Head(mapped), <<>>)>> ELSE <<>>)
         \o MappedBodies(Tail(mapped), dict)

CombinedRequirements(abap_section, dict) ==
    Join(MappedBodies(DEFAULT_UDD_MAPPING[abap_section], dict), <<"\n", "\n">>)

\* the groupings whose output is appended to context_parts
ContextOf(abap_section) ==
    IF abap_section = "selection_screen" THEN <<"global_declaration">>
    ELSE IF abap_section = "processing_logic"
    THEN <<"global_declaration", "selection_screen">>
    ELSE IF abap_section = "output_display"
    THEN <<"global_declaration", "selection_screen", "processing_logic">>
    ELSE <<>>

\* context_parts
ContextParts(abap_section, res) ==
    [i \in 1..Len(ContextOf(abap_section)) |->
        DictGet(res, ContextOf(abap_section)[i], <<>>)]

\* context_code = "\n\n".join([c for c in context_parts if c])
ContextCode(abap_section, res) ==
    Join(SelectSeq(ContextParts(abap_section, res), NonEmpty), <<"\n", "\n">>)

\* the prompt: the grouping, the code of previous sections (the sentence
\* that introduces it is left out with it when it is empty), the requirements
Prompt(abap_section, context_code, combined_requirements) ==
    [section |-> abap_section, context |-> context_code,
     requirements |-> combined_requirements]

AbapInLoop == apc = "loop" /\ abap_ix <= Len(ABAP_SECTIONS)

\* if not combined_requirements: the sentinel, and continue
NoRequirements ==
    /\ AbapInLoop
    /\ LET abap_section == ABAP_SECTIONS[abap_ix]
       IN  /\ ~NonEmpty(CombinedRequirements(abap_section, sections_dict))
           /\ abap_result' = SetItem(abap_result, abap_section, Sentinel)
    /\ abap_ix' = abap_ix + 1
    /\ UNCHANGED <<apc, sections_dict, llm_calls, llm_returned>>
    /\ UNCHANGED <<docVars, splitVars, paraVars, jobVars>>

\* the rest of the loop body up to llm.invoke(prompt): the context and the
\* prompt are built and the prompt is sent; the function waits for the
\* answer
Generate ==
    /\ AbapInLoop
    /\ LET abap_section == ABAP_SECTIONS[abap_ix]
           combined_requirements == CombinedRequirements(abap_section, sections_dict)
       IN  /\ NonEmpty(combined_requirements)
           /\ llm_calls' = Append(llm_calls,
                  Prompt(abap_section, ContextCode(abap_section, abap_result),
                         combined_requirements))
    /\ apc' = "invoke"
    /\ UNCHANGED <<sections_dict, abap_ix, abap_result, llm_returned>>
    /\ UNCHANGED <<docVars, splitVars, paraVars, jobVars>>

\* llm.invoke returns: output = response.content, and
\* abap_result[abap_section] = output.strip()
LlmReturns ==
    /\ apc = "invoke"
    /\ LET abap_section == ABAP_SECTIONS[abap_ix]
       IN  \E output \in ResponseSet(abap_section) :
               /\ abap_result' = SetItem(abap_result, abap_section, Strip(output))
               /\ llm_returned' = SetItem(llm_returned, abap_section, Strip(output))
    /\ abap_ix' = abap_ix + 1
    /\ apc' = "loop"
    /\ UNCHANGED <<sections_dict, llm_calls>>
    /\ UNCHANGED <<docVars, splitVars, paraVars, jobVars>>

\* llm.invoke raises (the connection, the API): the exception leaves the
\* function, which has no handler, and abap_result is lost with it
LlmRaises ==
    /\ apc = "invoke"
    /\ apc' = "raised"
    /\ UNCHANGED <<sections_dict, abap_ix, abap_result, llm_calls, llm_returned>>
    /\ UNCHANGED <<docVars, splitVars, paraVars, jobVars>>

\* return abap_result
ReturnAbap ==
    /\ apc = "loop"
    /\ abap_ix > Len(ABAP_SECTIONS)
    /\ apc' = "done"
    /\ UNCHANGED <<sections_dict, abap_ix, abap_result, llm_calls, llm_returned>>
    /\ UNCHANGED <<docVars, splitVars, paraVars, jobVars>>

NextAbap ==
    \/ NoRequirements
    \/ Generate
    \/ LlmReturns
    \/ LlmRaises
    \/ ReturnAbap

SpecAbap == InitAbap /\ [][NextAbap]_vars

----------------------------------------------------------------------------
(* add_paragraph (docx_writer.py) *)

\* most tokens of a content line given to add_paragraph
MaxText == 12

\* the tokens of the lines: the asterisk and a word
ParaTokens == {"*", "a"}

\* the lines of n tokens or fewer
RECURSIVE TextsUpTo(_)
TextsUpTo(n) ==
    IF n = 0 THEN {<<>>}
    ELSE TextsUpTo(n - 1)
         \cup {Append(t, c) : t \in {u \in TextsUpTo(n - 1) : Len(u) = n - 1},
                              c \in ParaTokens}

\* \*\* at position i of text (positions count from 1)
StarsAt(text, i) ==
    i >= 1 /\ i + 1 <= Len(text) /\ text[i] = "*" /\ text[i + 1] = "*"

\* .+ in place of .+?: the last \*\* at or after position i, 0 when none
RECURSIVE LastClose(_, _)
LastClose(text, i) ==
    IF i + 1 > Len(text) THEN 0
    ELSE LET later == LastClose(text, i + 1)
         IN  IF later > 0 THEN later
             ELSE IF StarsAt(text, i) THEN i ELSE 0

\* (.+?)\*\*: the first \*\* at or after position i, 0 when none
RECURSIVE FirstClose(_, _)
FirstClose(text, i) ==
    IF i + 1 > Len(text) THEN 0
    ELSE IF StarsAt(text, i) THEN i
    ELSE FirstClose(text, i + 1)

\* re.finditer(r"\*\*(.+?)\*\*", text) scanning from offset from: the span
\* of the leftmost match, as the offsets start and end of match.span(), or
\* the span <<0, 0>> when nothing matches.  The group takes one character
\* at least, so the closing \*\* is looked for three positions after the
\* opening one.
RECURSIVE MatchFrom(_, _)
MatchFrom(text, from) ==
    IF from + 1 > Len(text) THEN <<0, 0>>
    ELSE LET close == IF StarsAt(text, from + 1)
                      THEN FirstClose(text, from + 4) ELSE 0
         IN  IF close > 0 THEN <<from, close + 1>>
             ELSE MatchFrom(text, from + 1)

\* text[a:b]
Slice(text, a, b) == SubSeq(text, a + 1, b)

\* paragraph.add_run(text), and bold_run.bold = True
Run(text, bold) == [text |-> text, bold |-> bold]

\* add_paragraph is called with a content line
InitPara ==
    /\ ppc = "loop"
    /\ para_text \in TextsUpTo(MaxText)
    /\ cursor = 0
    /\ runs = <<>>
    /\ DocIdle /\ SplitIdle /\ AbapIdle /\ JobsIdle

\* the body of the for loop, for the next match
BoldMatch ==
    /\ ppc = "loop"
    /\ LET span == MatchFrom(para_text, cursor)
           start == span[1]
           end == span[2]
       IN  /\ end > 0
           /\ runs' = runs \o <<Run(Slice(para_text, cursor, start), FALSE),
                                Run(Slice(para_text, start + 2, end - 2), TRUE)>>
           /\ cursor' = end
    /\ UNCHANGED <<ppc, para_text>>
    /\ UNCHANGED <<docVars, splitVars, abapVars, jobVars>>

\* no further match: paragraph.add_run(text[cursor:])
LastRun ==
    /\ ppc = "loop"
    /\ MatchFrom(para_text, cursor)[2] = 0
    /\ runs' = Append(runs, Run(Slice(para_text, cursor, Len(para_text)), FALSE))
    /\ ppc' = "done"
    /\ UNCHANGED <<para_text, cursor>>
    /\ UNCHANGED <<docVars, splitVars, abapVars, jobVars>>

NextPara ==
    \/ BoldMatch
    \/ LastRun

SpecPara == InitPara /\ [][NextPara]_vars

----------------------------------------------------------------------------
(* The job store of main1.py.  The handlers are coroutines without an      *)
(* await: one runs at a time.  generate_abap_doc_background is a plain     *)
(* function, which BackgroundTasks runs in a worker thread: its statements  *)
(* interleave with the handlers.                                            *)

\* most jobs posted
MaxJobs == 2

\* the values uuid.uuid4() returns
JobIds == 1..MaxJobs

None == "None"

\* output_filename = f"ABAP_Code_{job_id}.docx"
FileNameOf(job_id) ==
    <<"ABAP_Code_1.docx", "ABAP_Code_2.docx", "ABAP_Code_3.docx">>[job_id]

\* os.path.abspath(output_filename), the working directory being /app
PathOf(job_id) == "/app/" \o FileNameOf(job_id)

\* os.path.basename(path): what follows the last slash
RECURSIVE Basename(_)
Basename(path) ==
    IF \E i \in 1..Len(path) : SubSeq(path, i, i) = "/"
    THEN Basename(SubSeq(path, 2, Len(path)))
    ELSE path

\* str(e)
ErrorText == "error"

InitJobs ==
    /\ JOBS = <<>>
    /\ task = <<>>
    /\ get_pc = "idle"
    /\ get_job = 0
    /\ get_path = None
    /\ response = NoResponse
    /\ DocIdle /\ SplitIdle /\ ParaIdle /\ AbapIdle

\* POST /generate_abap_doc: the job is stored as pending and the task queued
Post(job_id) ==
    /\ get_pc = "idle"
    /\ job_id \notin DOMAIN JOBS
    /\ JOBS' = JOBS @@ (job_id :> [status |-> "pending", file_path |-> None,
                                   error |-> None])
    /\ task' = task @@ (job_id :> "queued")
    /\ UNCHANGED <<get_pc, get_job, get_path, response>>
    /\ UNCHANGED <<docVars, splitVars, paraVars, abapVars>>

\* the try block up to the file written: it ends or raises
TaskWork(job_id) ==
    /\ job_id \in DOMAIN task
    /\ task[job_id] = "queued"
    /\ \E outcome \in {"written", "raised"} :
           task' = [task EXCEPT ![job_id] = outcome]
    /\ UNCHANGED <<JOBS, get_pc, get_job, get_path, response>>
    /\ UNCHANGED <<docVars, splitVars, paraVars, abapVars>>

\* JOBS[job_id]["status"] = "done"
SetDone(job_id) ==
    /\ job_id \in DOMAIN task
    /\ task[job_id] = "written"
    /\ JOBS' = [JOBS EXCEPT ![job_id].status = "done"]
    /\ task' = [task EXCEPT ![job_id] = "status_set"]
    /\ UNCHANGED <<get_pc, get_job, get_path, response>>
    /\ UNCHANGED <<docVars, splitVars, paraVars, abapVars>>

\* JOBS[job_id]["file_path"] = output_path
SetPath(job_id) ==
    /\ job_id \in DOMAIN task
    /\ task[job_id] = "status_set"
    /\ JOBS' = [JOBS EXCEPT ![job_id].file_path = PathOf(job_id)]
    /\ task' = [task EXCEPT ![job_id] = "finished"]
    /\ UNCHANGED <<get_pc, get_job, get_path, response>>
    /\ UNCHANGED <<docVars, splitVars, paraVars, abapVars>>

\* except Exception: JOBS[job_id]["status"] = "failed"
SetFailed(job_id) ==
    /\ job_id \in DOMAIN task
    /\ task[job_id] = "raised"
    /\ JOBS' = [JOBS EXCEPT ![job_id].status = "failed"]
    /\ task' = [task EXCEPT ![job_id] = "failed_set"]
    /\ UNCHANGED <<get_pc, get_job, get_path, response>>
    /\ UNCHANGED <<docVars, splitVars, paraVars, abapVars>>

\* JOBS[job_id]["error"] = str(e)
SetError(job_id) ==
    /\ job_id \in DOMAIN task
    /\ task[job_id] = "failed_set"
    /\ JOBS' = [JOBS EXCEPT ![job_id].error = ErrorText]
    /\ task' = [task EXCEPT ![job_id] = "finished"]
    /\ UNCHANGED <<get_pc, get_job, get_path, response>>
    /\ UNCHANGED <<docVars, splitVars, paraVars, abapVars>>

Response(kind, job_id, status, value, filename) ==
    [kind |-> kind, job |-> job_id, status |-> status, value |-> value,
     filename |-> filename]

\* GET /generate_abap_doc/{job_id}: job = JOBS.get(job_id), the 404 and the
\* test for "pending"
GetLookup(job_id) ==
    /\ get_pc = "idle"
    /\ IF job_id \notin DOMAIN JOBS
       THEN /\ response' = Response("404", job_id, "none", None, None)
            /\ UNCHANGED <<get_pc, get_job>>
       ELSE IF JOBS[job_id].status = "pending"
       THEN /\ response' = Response("pending", job_id, "pending", None, None)
            /\ UNCHANGED <<get_pc, get_job>>
       ELSE /\ get_pc' = "test_failed"
            /\ get_job' = job_id
            /\ UNCHANGED response
    /\ UNCHANGED <<JOBS, task, get_path>>
    /\ UNCHANGED <<docVars, splitVars, paraVars, abapVars>>

\* if job["status"] == "failed"
GetTestFailed ==
    /\ get_pc = "test_failed"
    /\ get_pc' = (IF JOBS[get_job].status = "failed"
                  THEN "read_error" ELSE "test_done")
    /\ UNCHANGED <<JOBS, task, get_job, get_path, response>>
    /\ UNCHANGED <<docVars, splitVars, paraVars, abapVars>>

\* the JSON response with job["error"]
GetFailed ==
    /\ get_pc = "read_error"
    /\ response' = Response("failed", get_job, "failed", JOBS[get_job].error, None)
    /\ get_pc' = "idle"
    /\ get_job' = 0
    /\ UNCHANGED <<JOBS, task, get_path>>
    /\ UNCHANGED <<docVars, splitVars, paraVars, abapVars>>

\* if job["status"] == "done"; the handler returns None when the test fails
GetTestDone ==
    /\ get_pc = "test_done"
    /\ IF JOBS[get_job].status = "done"
       THEN /\ get_pc' = "read_path"
            /\ UNCHANGED <<get_job, response>>
       ELSE /\ response' = Response("null", get_job, JOBS[get_job].status, None, None)
            /\ get_pc' = "idle"
            /\ get_job' = 0
    /\ UNCHANGED <<JOBS, task, get_path>>
    /\ UNCHANGED <<docVars, splitVars, paraVars, abapVars>>

\* job["file_path"], the first argument of FileResponse
GetReadPath ==
    /\ get_pc = "read_path"
    /\ get_path' = JOBS[get_job].file_path
    /\ get_pc' = "read_name"
    /\ UNCHANGED <<JOBS, task, get_job, response>>
    /\ UNCHANGED <<docVars, splitVars, paraVars, abapVars>>

\* filename=os.path.basename(job["file_path"]), the second read of the
\* path, and the FileResponse; os.path.basename raises TypeError for None
GetRespond ==
    /\ get_pc = "read_name"
    /\ LET path == JOBS[get_job].file_path
       IN  response' =
               IF path = None
               THEN Response("TypeError", get_job, "done", None, None)
               ELSE Response("file", get_job, "done", get_path, Basename(path))
    /\ get_pc' = "idle"
    /\ get_job' = 0
    /\ get_path' = None
    /\ UNCHANGED <<JOBS, task>>
    /\ UNCHANGED <<docVars, splitVars, paraVars, abapVars>>

NextJobs ==
    \/ \E job_id \in JobIds : Post(job_id)
    \/ \E job_id \in JobIds : TaskWork(job_id)
    \/ \E job_id \in JobIds : SetDone(job_id)
    \/ \E job_id \in JobIds : SetPath(job_id)
    \/ \E job_id \in JobIds : SetFailed(job_id)
    \/ \E job_id \in JobIds : SetError(job_id)
    \/ \E job_id \in JobIds : GetLookup(job_id)
    \/ GetTestFailed
    \/ GetFailed
    \/ GetTestDone
    \/ GetReadPath
    \/ GetRespond

SpecJobs == InitJobs /\ [][NextJobs]_vars

----------------------------------------------------------------------------
(* Properties of generate_doc *)

DocIx == 1..Len(doc)
IsHeading(i) == doc[i].kind = "Heading"
\* the section number a heading text starts with
HeadingNumber(text) == SubSeq(text, 1, LeadDigits(text))
\* a line 'n. Title' is among the first k - 1 lines of the input
HeadingLineBefore(n, k) ==
    \E i \in 1..(k - 1) :
        /\ MainMatches(Strip(input[i]))
        /\ MainGroup1(Strip(input[i])) = n
\* the placeholder headings written for the number n
PlaceholdersFor(n) ==
    {i \in DocIx : IsHeading(i) /\ doc[i].auto /\ doc[i].text = AutoTitle(n)}
\* the subheadings of the number n written before the last block
EarlierSubheadings(n) ==
    {i \in 1..(Len(doc) - 1) :
        doc[i].kind = "Subheading" /\ HeadingNumber(doc[i].text) = n}

\* C1: blocks are written in the order of their first input lines: a block
\* whose first line comes earlier in the input is never written after a
\* block whose first line comes later.
C1_BlocksInInputOrder ==
    \A i, j \in DocIx : i < j => doc[i].first <= doc[j].first

\* C2: at the end of the input every non-empty buffer has been written:
\* buffered pipe rows as one Table, the lines after an unclosed fence as one
\* CodeBlock.
C2_EndOfInputCommitsBuffers ==
    pc = "done" =>
        /\ table_lines # <<>> =>
              \E i \in DocIx : doc[i].kind = "Table" /\ doc[i].lines = table_lines
        /\ (in_code_block /\ code_block_lines # <<>>) =>
              \E i \in DocIx :
                  doc[i].kind = "CodeBlock" /\ doc[i].lines = code_block_lines

\* C3: generate_doc raises for no input: no state of it is the error state.
C3_NeverRaises == pc # "error"

\* C4: when a subheading line 'N.M Title' is processed and no heading line
\* 'N. Title' came before it, the document holds exactly one placeholder
\* heading for N, written before that subheading, and immediately before it
\* when it is the first subheading of N; no document holds two placeholder
\* headings for the same N.
C4_OnePlaceholderBeforeSubheading ==
    /\ \A i, j \in DocIx :
          (IsHeading(i) /\ IsHeading(j) /\ doc[i].auto /\ doc[j].auto
             /\ doc[i].text = doc[j].text) => i = j
    /\ branch = "sub" =>
          LET k == Len(input)
              line == Strip(input[k])
              n == SubGroup1(line)
          IN  /\ doc[Len(doc)] = SubheadingBlock(SubheadingText(line), k)
              /\ ~HeadingLineBefore(n, k) =>
                    /\ Cardinality(PlaceholdersFor(n)) = 1
                    /\ \A p \in PlaceholdersFor(n) : p < Len(doc)
                    /\ EarlierSubheadings(n) = {} =>
                          doc[Len(doc) - 1] = HeadingBlock(AutoTitle(n), k, TRUE)

\* C4 witness: two subheadings of the number 3 were processed with no heading
\* line for 3 in the input, and the document holds one placeholder.
C4_Witness ==
    /\ branch = "sub"
    /\ ~HeadingLineBefore(<<"3">>, Len(input) + 1)
    /\ Cardinality(EarlierSubheadings(<<"3">>)) = 1
    /\ Cardinality(PlaceholdersFor(<<"3">>)) = 1

\* C5: for every section number N the document holds at most one heading
\* for N, explicit headings and placeholders counted together.
C5_OneHeadingPerNumber ==
    \A i, j \in DocIx :
        (IsHeading(i) /\ IsHeading(j)
           /\ HeadingNumber(doc[i].text) = HeadingNumber(doc[j].text)) => i = j

\* C6: no two headings of one document have the same text.
C6_HeadingTitlesUnique ==
    \A i, j \in DocIx :
        (IsHeading(i) /\ IsHeading(j) /\ doc[i].text = doc[j].text) => i = j

\* C6 witness: the placeholder text recurs as an explicit heading line and
\* the heading '3. A' occurs twice; each is written once.
C6_Witness ==
    /\ pc = "done"
    /\ input = << <<"3", ".", "1", " ", "S">>,
                  <<"3", ".", " ", "(", "Auto", ")", " ", "Section">>,
                  <<"3", ".", " ", "A">>,
                  <<"3", ".", " ", "A">> >>
    /\ Cardinality({i \in DocIx : IsHeading(i)}) = 2

----------------------------------------------------------------------------
(* Properties of split_sections *)

IsPrefix(a, b) == Len(a) <= Len(b) /\ SubSeq(b, 1, Len(a)) = a

\* a title: words separated by single blanks, no blank at either end
IsCanonicalTitle(t) ==
    /\ t # <<>>
    /\ \A i \in 1..Len(t) : IsTitleChar(t[i])
    /\ t[1] # " " /\ t[Len(t)] # " "
    /\ \A i \in 1..(Len(t) - 1) : ~(t[i] = " " /\ t[i + 1] = " ")

\* 'SECTION: <N>. <Title>': one blank after the colon, N decimal without
\* leading zeros, one blank after 'N.', a canonical title
IsCanonicalLabel(k) ==
    /\ Len(k) >= 3 /\ SubSeq(k, 1, 3) = <<"SECTION", ":", " ">>
    /\ LET r == From(k, 4)
           d == LeadDigits(r)
       IN  /\ d >= 1
           /\ (d > 1 => r[1] # "0")
           /\ Len(r) >= d + 2 /\ r[d + 1] = "." /\ r[d + 2] = " "
           /\ IsCanonicalTitle(From(r, d + 3))

\* the label 'SECTION: N. Title' of a header piece
Label(p) == <<"SECTION", ":", " ">> \o p.num \o <<".", " ">> \o p.title
\* a header piece written 'N. Title' after its marker
PlainHeader(p) == p.gap = <<" ">> /\ IsCanonicalLabel(Label(p))

\* the map the pieces describe: the text between two headers, trimmed and
\* followed by one newline, is appended to the body of the header before it
Committed(res, cur, text) ==
    IF cur # <<>> /\ Strip(text) # <<>>
    THEN SetItem(res, cur,
                 res[KeyIx(res, cur)].value \o Strip(text) \o <<"\n">>)
    ELSE res
RECURSIVE ExpectedFrom(_, _, _, _)
ExpectedFrom(ps, res, cur, text) ==
    IF ps = <<>> THEN Committed(res, cur, text)
    ELSE IF Head(ps).kind = "header"
    THEN LET done == Committed(res, cur, text)
             label == Label(Head(ps))
         IN  ExpectedFrom(Tail(ps),
                          IF label \in Keys(done) THEN done
                          ELSE Append(done, [key |-> label, value |-> <<>>]),
                          label, <<>>)
    ELSE ExpectedFrom(Tail(ps), res, cur, text \o Head(ps).text)
ExpectedMap(ps) == ExpectedFrom(ps, <<>>, <<>>, <<>>)

\* C7: the three passes are idempotent: the text they return is returned
\* unchanged when they are applied to it again.
C7_NormalizerIdempotent ==
    spc = "split" => Normalizer(document) = document

\* C8: in every split_sections a key, once in the map, keeps its place, and
\* its body only grows: a later occurrence of the label appends to the body
\* and never discards or resets it.
C8_BodiesOnlyAppended ==
    [][\A i \in 1..Len(result) :
          /\ i <= Len(result')
          /\ result'[i].key = result[i].key
          /\ IsPrefix(result[i].value, result'[i].value)]_vars

\* C9: every key of the map split_sections (generator1) returns has the
\* canonical form 'SECTION: <N>. <Title>'.
C9_KeysCanonical ==
    gen = "generator1" => \A k \in Keys(result) : IsCanonicalLabel(k)

\* C10: for a text whose headers are written 'N. Title' after any variant of
\* the marker, split_sections (generator1) returns the map whose keys are
\* 'SECTION: N. Title' in order of first occurrence and whose bodies are the
\* trimmed texts up to the next header, each followed by one newline; text
\* before the first header is in no value.
C10_VariantsGiveCanonicalMap ==
    (spc = "done" /\ gen = "generator1"
       /\ \A i \in 1..Len(segs) : segs[i].kind = "header" => PlainHeader(segs[i]))
    => result = ExpectedMap(segs)

\* The statement of C10 holds for every such text in which no body starts
\* with 'SECTION:'.
C10_HoldsUnlessBodyStartsWithSection ==
    (spc = "done" /\ gen = "generator1"
       /\ \A i \in 1..Len(segs) :
             /\ segs[i].kind = "header" => PlainHeader(segs[i])
             /\ segs[i].kind = "text" => ~StartsWithSection(segs[i].text))
    => result = ExpectedMap(segs)

\* the payload is neither a dict nor a string that decodes to a JSON object
InvalidEnvelope ==
    \/ payload.type \notin {"str", "dict"}
    \/ payload.type = "str" /\ payload.value \notin {"object", "deep_object"}

\* C11: split_sections fails with ValueError, and with no other error, for
\* every payload that is neither a dict nor a string that decodes to a JSON
\* object (it never gets past data.get), and it does not fail for a dict or
\* JSON object whose requirement text is a string or is absent.
C11_InvalidPayloadIsValueError ==
    /\ InvalidEnvelope =>
          /\ spc \in {"payload", "get", "raised"}
          /\ spc = "raised" => split_error = "ValueError"
    /\ (payload.type # "none" /\ ~InvalidEnvelope /\ DocumentIsText) =>
          spc # "raised" /\ split_error = "none"

\* The statement of C11 holds for the payloads json.loads does not decode to
\* something other than an object and does not run out of stack on: a value
\* of another type and a string that is not JSON fail with ValueError, and a
\* dict or a decoded JSON object whose requirement text is a string or is
\* absent does not fail.
C11_HoldsUnlessDecodedOrDeep ==
    /\ (payload.type = "other" \/ (payload.type = "str" /\ payload.value = "invalid")) =>
          /\ spc \in {"payload", "raised"}
          /\ spc = "raised" => split_error = "ValueError"
    /\ ((payload.type = "dict" \/ (payload.type = "str" /\ payload.value = "object"))
          /\ DocumentIsText) =>
          spc # "raised" /\ split_error = "none"

----------------------------------------------------------------------------
(* Properties of generate_doc: fences and tables *)

\* the line the step reads, stripped
NewLine == Strip(input'[Len(input')])
\* the step reads a line that is not blank
ReadsLine == Len(input') = Len(input) + 1 /\ NewLine # <<>>

\* position of the opening fence that is open after the first n lines of
\* inp, 0 when no fence is open
RECURSIVE FenceOpenAt(_, _)
FenceOpenAt(inp, n) ==
    IF n = 0 THEN 0
    ELSE LET before == FenceOpenAt(inp, n - 1)
             line == Strip(inp[n])
         IN  IF line # <<>> /\ IsFence(line)
             THEN (IF before = 0 THEN n ELSE 0)
             ELSE before

\* the lines of inp after position from, stripped, the blank ones left out
NonBlankAfter(inp, from) ==
    SelectSeq([i \in 1..(Len(inp) - from) |-> Strip(inp[from + i])], NonEmpty)

\* kind and text of the blocks of d
Shapes(d) == [i \in 1..Len(d) |-> <<d[i].kind, d[i].text>>]

\* a step that reads a line inside an open fence changes the code buffer
\* only; a step that reads the closing fence appends one CodeBlock of the
\* non-blank lines since the opening fence and empties the code buffer
C13Step ==
    LET open == FenceOpenAt(input, Len(input))
    IN  (ReadsLine /\ open > 0) =>
            IF IsFence(NewLine)
            THEN /\ Len(doc') = Len(doc) + 1
                 /\ SubSeq(doc', 1, Len(doc)) = doc
                 /\ doc'[Len(doc')].kind = "CodeBlock"
                 /\ doc'[Len(doc')].lines
                        = NonBlankAfter(SubSeq(input, 1, Len(input)), open)
                 /\ code_block_lines' = <<>>
            ELSE /\ doc' = doc
                 /\ UNCHANGED <<known_main_sections, current_section,
                                current_content, table_lines, in_table,
                                seen_sections>>

\* C13: for every pair of an opening and a closing fence line exactly one
\* CodeBlock is written when the fence closes, holding the non-blank lines
\* between the two fences in order; a line inside the fence, whatever it
\* looks like, writes no block and leaves the known numbers, the pending
\* heading, the pending content and the table buffer as they are; after the
\* commit the code buffer is empty.
C13_FencedLinesAreCodeOnly == [][C13Step]_vars

\* C13 witness: a fence was closed over a line that looks like a heading and
\* a line that looks like a pipe row; both are in the CodeBlock, no heading
\* is written or pending and the number is not known.
C13_Witness ==
    /\ branch = "fence" /\ ~in_code_block
    /\ doc[Len(doc)].kind = "CodeBlock"
    /\ \E i, j \in 1..Len(doc[Len(doc)].lines) :
          /\ i < j
          /\ MainMatches(doc[Len(doc)].lines[i])
          /\ IsTableLine(doc[Len(doc)].lines[j])
    /\ known_main_sections = {} /\ current_section = <<>>
    /\ table_lines = <<>> /\ code_block_lines = <<>>

\* the last line read ended a table: it is no pipe row and rows were buffered
TableJustEnded == branch = "tableend"

\* C15: the line that ends a table is processed as ordinary input after the
\* table is written: a heading line is the pending heading and its number is
\* known, a subheading line has written its Subheading, any other line is
\* pending content.
C15_TableEndLineIsProcessed ==
    TableJustEnded =>
        LET line == Strip(input[Len(input)])
        IN  IF MainMatches(line)
            THEN /\ current_section = SectionText(line)
                 /\ MainGroup1(line) \in known_main_sections
            ELSE IF SubMatches(line)
            THEN /\ doc[Len(doc)].kind = "Subheading"
                 /\ doc[Len(doc)].text = SubheadingText(line)
            ELSE /\ current_content # <<>>
                 /\ current_content[Len(current_content)] = line

\* the step reads the line that ends a table
EndsTable ==
    /\ ReadsLine
    /\ FenceOpenAt(input, Len(input)) = 0
    /\ ~IsFence(NewLine)
    /\ ~IsTableLine(NewLine)
    /\ table_lines # <<>>

\* kind and text of the blocks the pending heading and content are written as
PendingShapes ==
    (IF current_section # <<>> /\ current_section \notin seen_sections
     THEN <<(<<"Heading", current_section>>)>> ELSE <<>>)
    \o [i \in 1..Len(current_content) |-> <<"Paragraph", current_content[i]>>]

\* the pending heading and content are written, in order, and then the Table
TableAfterPending ==
    /\ Shapes(doc') = Shapes(doc) \o PendingShapes \o <<(<<"Table", <<>> >>)>>
    /\ doc'[Len(doc')].lines = table_lines

\* C16: when a Table is committed the pending heading and every pending
\* content line have been written, in order, before it; after the commit the
\* table buffer is empty and the parser is not in the table state.
C16_TableCommitFlushesFirst ==
    [][EndsTable => (TableAfterPending /\ table_lines' = <<>> /\ ~in_table')]_vars

\* C16 without the tables add_markdown_table raises on (C3)
C16_HoldsUnlessTableRaises ==
    [][(EndsTable /\ pc' # "error") =>
          (TableAfterPending /\ table_lines' = <<>> /\ ~in_table')]_vars

----------------------------------------------------------------------------
(* Properties of process_payload_and_generate_abap *)

\* the groupings the loop has been through
Processed == {ABAP_SECTIONS[i] : i \in 1..(abap_ix - 1)}

\* the grouping maps to no section of the map that has a non-empty body
ZeroNonEmpty(abap_section) ==
    \A i \in 1..Len(DEFAULT_UDD_MAPPING[abap_section]) :
        ~NonEmpty(DictGet(sections_dict, DEFAULT_UDD_MAPPING[abap_section][i], <<>>))

Invoked(abap_section) ==
    \E i \in 1..Len(llm_calls) : llm_calls[i].section = abap_section

\* C12: a grouping that maps to no section with a non-empty body (its labels
\* absent, or present with empty bodies) gets the sentinel and no call of the
\* LLM, and every grouping has its own output when the function returns.
C12_SentinelWhenNothingMapped ==
    /\ \A g \in Processed :
          ZeroNonEmpty(g) =>
              /\ DictGet(abap_result, g, <<>>) = Sentinel
              /\ ~Invoked(g)
    /\ Keys(abap_result) = Processed
    /\ apc = "done" => Processed = {ABAP_SECTIONS[i] : i \in 1..Len(ABAP_SECTIONS)}

\* the code the LLM returned for the groupings of ContextOf(abap_section),
\* in that order
ReturnedBefore(abap_section) ==
    SelectSeq([i \in 1..Len(ContextOf(abap_section)) |->
                  DictGet(llm_returned, ContextOf(abap_section)[i], <<>>)],
              NonEmpty)

\* C18: the context of every prompt is the code the LLM returned for the
\* earlier groupings, in the order global_declaration, selection_screen,
\* processing_logic, and nothing else: the sentinel of an earlier grouping is
\* no part of it.
C18_ContextIsReturnedCode ==
    \A i \in 1..Len(llm_calls) :
        llm_calls[i].context =
            Join(ReturnedBefore(llm_calls[i].section), <<"\n", "\n">>)

----------------------------------------------------------------------------
(* Properties of add_paragraph *)

\* the runs from the i-th on, written out with \*\* around the bold ones
RECURSIVE Marked(_, _)
Marked(rs, i) ==
    IF i > Len(rs) THEN <<>>
    ELSE (IF rs[i].bold THEN <<"*", "*">> \o rs[i].text \o <<"*", "*">>
          ELSE rs[i].text)
         \o Marked(rs, i + 1)

\* a bold run is delimited at position q of text: \*\*, one token or more,
\* and \*\* again
DelimitedAt(text, q) ==
    StarsAt(text, q) /\ \E e \in (q + 3)..Len(text) : StarsAt(text, e)

\* the text of a bold run is the shortest there is: no \*\* closes it earlier
Shortest(b) ==
    /\ Len(b) >= 1
    /\ \A k \in 2..(Len(b) - 1) : ~StarsAt(b, k)
    /\ Len(b) >= 2 => b[Len(b)] # "*"

\* C14: add_paragraph writes one paragraph whose runs are plain and bold in
\* turn: every bold run is the non-empty, shortest text between a pair of
\* \*\*, taken leftmost (no pair opens inside the plain run before it); the
\* run texts with the \*\* put back around the bold ones are the line, so
\* the texts alone are the line without the matched delimiters; a \*\* with
\* no partner stays in a plain run (no pair opens in the last plain run).
C14_BoldRunsLeftmostShortest ==
    ppc = "done" =>
        /\ Len(runs) % 2 = 1
        /\ \A i \in 1..Len(runs) : runs[i].bold = (i % 2 = 0)
        /\ Marked(runs, 1) = para_text
        /\ \A i \in 1..Len(runs) :
              IF runs[i].bold
              THEN Shortest(runs[i].text)
              ELSE \A q \in 1..Len(runs[i].text) :
                       ~DelimitedAt(Marked(runs, i), q)

\* C14 witness: a line with two bold runs and a \*\* left over in the last
\* plain run
C14_Witness ==
    /\ ppc = "done"
    /\ Len(runs) = 5
    /\ StarsAt(runs[5].text, 1)

----------------------------------------------------------------------------
(* Properties of the job store *)

\* C17: in every state of the job store a job whose status is "done" has a
\* file path, and no GET answers for status "done" without one.
C17_DoneHasFilePath ==
    /\ \A job_id \in DOMAIN JOBS :
          JOBS[job_id].status = "done" => JOBS[job_id].file_path # None
    /\ response.status = "done" => response.value # None

\* the status of a job changes from "pending" to "done" or to "failed" only
C17_StatusOnlyLeavesPending ==
    [][\A job_id \in DOMAIN JOBS :
          JOBS'[job_id].status # JOBS[job_id].status =>
              /\ JOBS[job_id].status = "pending"
              /\ JOBS'[job_id].status \in {"done", "failed"}]_vars

====
